---------------------------- MODULE Spec2Model ----------------------------
(***************************************************************************)
(* Post Management API (src/server.js): an Express application keeping an  *)
(* in-memory array `posts` and writing uploaded media below uploads/.      *)
(*                                                                         *)
(* Every route handler is synchronous, so one request is one atomic step.  *)
(* JavaScript values are tagged records; every JavaScript string is a      *)
(* sequence of one-character strings, so that isNaN, startsWith, extname   *)
(* and the template literals are computed character by character.          *)
(*                                                                         *)
(* POST /posts is modelled for multipart/form-data requests whose text     *)
(* fields occur at most once (each field is a string or absent), which is  *)
(* the request body the route documents (src/server.js:72-98).             *)
(***************************************************************************)
EXTENDS Integers, Sequences, FiniteSets, TLC

VARIABLES
    posts,      \* the array `posts` (src/server.js:64)
    disk,       \* the paths of the files multer has written
    uuids,      \* how many tokens uuidv4() has handed out
    req,        \* the request handled last
    res,        \* the response to it
    slots,      \* the requests in flight: received, their handlers not finished
    workload    \* the family of requests this run draws from

vars == <<posts, disk, uuids, req, res, slots, workload>>

-----------------------------------------------------------------------------
(* Bounds of the exploration *)

MaxPosts == 2
MaxFieldPosts == 1
MaxUuid == 3
MaxInflight == 2

-----------------------------------------------------------------------------
(* JavaScript values *)

Undefined == [t |-> "undefined"]
Null == [t |-> "null"]
Str(s) == [t |-> "string", v |-> s]

\* ToBoolean of undefined, null and strings: only a non-empty string is truthy.
Truthy(x) == x.t = "string" /\ x.v # <<>>

\* An array of files, as multer's upload.fields leaves one per field name.
Array(items) == [t |-> "array", items |-> items]

\* a || b
Or(a, b) == IF Truthy(a) THEN a ELSE b

Digit == {"0", "1", "2", "3", "4", "5", "6", "7", "8", "9"}
WhiteSpace == {" ", "\t", "\n"}

AllDigits(s) == \A i \in 1..Len(s) : s[i] \in Digit

RECURSIVE TrimStart(_)
TrimStart(s) ==
    IF s # <<>> /\ s[1] \in WhiteSpace THEN TrimStart(Tail(s)) ELSE s

RECURSIVE TrimEnd(_)
TrimEnd(s) ==
    IF s # <<>> /\ s[Len(s)] \in WhiteSpace
    THEN TrimEnd(SubSeq(s, 1, Len(s) - 1))
    ELSE s

Trim(s) == TrimEnd(TrimStart(s))

\* DecimalDigits [. DecimalDigits?] | . DecimalDigits
IsMantissa(m) ==
    \E d \in 0..Len(m) :
        LET a == SubSeq(m, 1, d)
            r == SubSeq(m, d + 1, Len(m))
        IN  /\ AllDigits(a)
            /\ \/ r = <<>> /\ a # <<>>
               \/ /\ r # <<>>
                  /\ r[1] = "."
                  /\ AllDigits(Tail(r))
                  /\ (a # <<>> \/ Len(r) > 1)

\* ExponentPart: e or E, an optional sign, DecimalDigits
IsExponent(e) ==
    /\ Len(e) >= 2
    /\ e[1] \in {"e", "E"}
    /\ LET r == Tail(e)
           u == IF r[1] \in {"+", "-"} THEN Tail(r) ELSE r
       IN  u # <<>> /\ AllDigits(u)

IsUnsignedDecimal(u) ==
    \/ u = <<"I", "n", "f", "i", "n", "i", "t", "y">>
    \/ \E k \in 1..Len(u) :
          /\ IsMantissa(SubSeq(u, 1, k))
          /\ (k = Len(u) \/ IsExponent(SubSeq(u, k + 1, Len(u))))

HexDigit == Digit \cup {"a", "b", "c", "d", "e", "f", "A", "B", "C", "D", "E", "F"}

\* 0x.., 0o.., 0b.. (unsigned)
IsNonDecimalInteger(u) ==
    /\ Len(u) >= 3
    /\ u[1] = "0"
    /\ LET ds == SubSeq(u, 3, Len(u))
       IN  \/ u[2] \in {"x", "X"} /\ \A i \in 1..Len(ds) : ds[i] \in HexDigit
           \/ u[2] \in {"o", "O"} /\ \A i \in 1..Len(ds) : ds[i] \in {"0", "1", "2", "3", "4", "5", "6", "7"}
           \/ u[2] \in {"b", "B"} /\ \A i \in 1..Len(ds) : ds[i] \in {"0", "1"}

\* Whether StringToNumber(s) is a number (not NaN): the string, trimmed, is
\* empty (the number 0) or a StrNumericLiteral.
StringIsNumber(s) ==
    LET u == Trim(s)
    IN  \/ u = <<>>
        \/ IsNonDecimalInteger(u)
        \/ IsUnsignedDecimal(u)
        \/ u[1] \in {"+", "-"} /\ IsUnsignedDecimal(Tail(u))

\* The global isNaN(x): ToNumber(x) is NaN.
isNaN(x) ==
    CASE x.t = "undefined" -> TRUE
      [] x.t = "null" -> FALSE
      [] x.t = "string" -> ~StringIsNumber(x.v)

\* s.startsWith(p)
StartsWith(s, p) == Len(s) >= Len(p) /\ SubSeq(s, 1, Len(p)) = p

\* The decimal digits of a natural number, as a string.
RECURSIVE ToDigits(_)
ToDigits(n) ==
    LET d == <<"0", "1", "2", "3", "4", "5", "6", "7", "8", "9">>[(n % 10) + 1]
    IN  IF n < 10 THEN <<d>> ELSE ToDigits(n \div 10) \o <<d>>

\* path.extname(name): from the last "." of the name to its end; "" when
\* there is none or the name's only "." is its first character.
RECURSIVE LastDot(_)
LastDot(s) ==
    IF s = <<>> THEN 0
    ELSE IF s[Len(s)] = "." THEN Len(s)
    ELSE LastDot(SubSeq(s, 1, Len(s) - 1))

extname(name) ==
    LET k == LastDot(name)
    IN  IF k <= 1 THEN <<>> ELSE SubSeq(name, k, Len(name))

-----------------------------------------------------------------------------
(* String constants of the program *)

Chars_video == <<"v", "i", "d", "e", "o">>
Chars_uploads == <<"u", "p", "l", "o", "a", "d", "s">>
Chars_images == <<"i", "m", "a", "g", "e", "s">>
Chars_videos == <<"v", "i", "d", "e", "o", "s">>
Slash == <<"/">>

\* The n-th token uuidv4() hands out.  The generator is taken never to
\* repeat a token; a token is no numeric literal (it holds letters and "-").
uuidv4(n) == <<"u", "-">> \o ToDigits(n)

-----------------------------------------------------------------------------
(* multer.diskStorage: where an uploaded part is written *)

destination(file) ==
    LET fileType == IF StartsWith(file.mimetype, Chars_video)
                    THEN Chars_videos ELSE Chars_images
    IN  Chars_uploads \o Slash \o fileType

\* A file name made of the time and the extension only
filename_NoToken(token, now, file) ==
    ToDigits(now) \o extname(file.originalname)

filename(token, now, file) ==
    token \o <<"-">> \o ToDigits(now) \o extname(file.originalname)

\* The file object multer leaves in req.files after writing the part.
StoreFile(part, token, now) ==
    LET dir == destination(part)
        name == filename(token, now, part)
    IN  [filename |-> name, destination |-> dir, path |-> dir \o Slash \o name]

\* express.static at /uploads over the uploads directory: the file a public
\* path names, or Undefined when the path is outside /uploads.
StaticFile(url) ==
    IF StartsWith(url, Slash \o Chars_uploads \o Slash)
    THEN Str(Tail(url))
    ELSE Undefined

-----------------------------------------------------------------------------
(* The handlers' steps *)

\* if (id && isNaN(id))
IdRejected(id) == Truthy(id) /\ isNaN(id)

\* postId without the fallback
postId_NoFallback(id, token) == id

\* postId whose fallback is one token drawn once, at startup
postId_FixedToken(id, token) == IF Truthy(id) THEN id ELSE Str(<<"u", "-", "1">>)

\* postId that ignores the supplied id
postId_AlwaysGenerated(id, token) == Str(token)

\* const postId = id || uuidv4()
postId(id, token) == Or(id, Str(token))

imageRef(files) ==
    IF files.image # Undefined
    THEN Str(Slash \o Chars_uploads \o Slash \o Chars_images \o Slash \o files.image.items[1].filename)
    ELSE Null

videoRef(files) ==
    IF files.video # Undefined
    THEN Str(Slash \o Chars_uploads \o Slash \o Chars_videos \o Slash \o files.video.items[1].filename)
    ELSE Null

newPost(body, files, token) ==
    [id |-> postId(body.id, token),
     title |-> body.title,
     description |-> body.description,
     image |-> imageRef(files),
     video |-> videoRef(files),
     actress |-> body.actress]

\* posts.unshift(newPost)
push_Front(ps, p) == <<p>> \o ps

\* posts.push(newPost)
push(ps, p) == Append(ps, p)

\* findIndex answering 0 where nothing matches
findIndex_NotFoundZero(ps, id) ==
    IF \E i \in 1..Len(ps) : ps[i].id = Str(id)
    THEN (CHOOSE i \in 1..Len(ps) :
              /\ ps[i].id = Str(id)
              /\ \A j \in 1..(i - 1) : ps[j].id # Str(id)) - 1
    ELSE 0

\* posts.findIndex(p => p.id === id): the first index (from 0) or -1
findIndex(ps, id) ==
    IF \E i \in 1..Len(ps) : ps[i].id = Str(id)
    THEN (CHOOSE i \in 1..Len(ps) :
              /\ ps[i].id = Str(id)
              /\ \A j \in 1..(i - 1) : ps[j].id # Str(id)) - 1
    ELSE -1

\* find answering the last element that matches
find_Last(ps, id) ==
    IF \E i \in 1..Len(ps) : ps[i].id = Str(id)
    THEN ps[CHOOSE i \in 1..Len(ps) :
                /\ ps[i].id = Str(id)
                /\ \A j \in (i + 1)..Len(ps) : ps[j].id # Str(id)]
    ELSE Undefined

\* posts.find(p => p.id === id): the first such element or undefined
find(ps, id) ==
    IF \E i \in 1..Len(ps) : ps[i].id = Str(id)
    THEN ps[CHOOSE i \in 1..Len(ps) :
                /\ ps[i].id = Str(id)
                /\ \A j \in 1..(i - 1) : ps[j].id # Str(id)]
    ELSE Undefined

\* splice given the index counted from 1
splice_OffByOne(ps, postIndex) ==
    SubSeq(ps, 1, postIndex + 1) \o SubSeq(ps, postIndex + 3, Len(ps))

\* posts.splice(postIndex, 1)
splice(ps, postIndex) ==
    SubSeq(ps, 1, postIndex) \o SubSeq(ps, postIndex + 2, Len(ps))

\* An update that overwrites with whatever the body supplies, empty or not
updated_OnPresence(post, body) ==
    [post EXCEPT !.title = IF body.title # Undefined THEN body.title ELSE post.title,
                 !.description = IF body.description # Undefined
                                 THEN body.description ELSE post.description,
                 !.actress = IF body.actress # Undefined THEN body.actress ELSE post.actress]

\* An update that also takes image and video from the body, as the route's
\* documented request body lists them
updated_TakesMedia(post, body) ==
    [post EXCEPT !.title = Or(body.title, post.title),
                 !.description = Or(body.description, post.description),
                 !.actress = Or(body.actress, post.actress),
                 !.image = Or(body.image, post.image),
                 !.video = Or(body.video, post.video)]

\* post.title = title || post.title, and so on: the element after the update
updated(post, body) ==
    [post EXCEPT !.title = Or(body.title, post.title),
                 !.description = Or(body.description, post.description),
                 !.actress = Or(body.actress, post.actress)]

\* posts after the in-place update of the element find() returned
assign(ps, id, body) ==
    LET k == findIndex(ps, id) + 1
    IN  [ps EXCEPT ![k] = updated(ps[k], body)]

\* res.status(status).json(body)
Json(status, body) == [status |-> status, body |-> body]

NotFound == Json(404, [message |-> "Post not found"])

\* A handler of POST /posts that refuses an id some record already has
HandleCreate_Unique(ps, body, files, token) ==
    IF IdRejected(body.id) \/ (\E i \in 1..Len(ps) : ps[i].id = body.id)
    THEN [posts |-> ps,
          res |-> Json(400, [message |-> "ID must be a valid number"]),
          drawn |-> 0]
    ELSE LET post == newPost(body, files, token)
         IN  [posts |-> push(ps, post),
              res |-> Json(201, [message |-> "Post created successfully", post |-> post]),
              drawn |-> IF Truthy(body.id) THEN 0 ELSE 1]

\* The handler of POST /posts on the body and the files multer left: the
\* collection afterwards, the response, and how many tokens it drew.
HandleCreate(ps, body, files, token) ==
    IF IdRejected(body.id)
    THEN [posts |-> ps,
          res |-> Json(400, [message |-> "ID must be a valid number"]),
          drawn |-> 0]
    ELSE LET post == newPost(body, files, token)
         IN  [posts |-> push(ps, post),
              res |-> Json(201, [message |-> "Post created successfully", post |-> post]),
              drawn |-> IF Truthy(body.id) THEN 0 ELSE 1]

\* The handler of GET /posts
HandleList(ps) == Json(200, ps)

\* The handler of GET /posts/:id
HandleGet(ps, id) ==
    LET post == find(ps, id)
    IN  IF post # Undefined THEN Json(200, post) ELSE NotFound

\* The handler of PUT /posts/:id
HandleUpdate(ps, id, body) ==
    LET post == find(ps, id)
    IN  IF post # Undefined
        THEN [posts |-> assign(ps, id, body),
              res |-> Json(200, [message |-> "Post updated successfully",
                                 post |-> updated(post, body)])]
        ELSE [posts |-> ps, res |-> NotFound]

\* The handler of DELETE /posts/:id
HandleDelete(ps, id) ==
    LET postIndex == findIndex(ps, id)
    IN  IF postIndex # -1
        THEN [posts |-> splice(ps, postIndex),
              res |-> Json(200, [message |-> "Post deleted successfully"])]
        ELSE [posts |-> ps, res |-> NotFound]

-----------------------------------------------------------------------------
(* The requests the exploration draws from.  Five families keep the state  *)
(* space finite and small: "ids" varies the identifiers (several records,  *)
(* duplicates, generated ids), "validation" varies the spelling of the     *)
(* supplied id, "fields" varies the text fields of create and update,      *)
(* "media" varies the uploaded parts, "uploads" sends a part along with a  *)
(* malformed id.                                                           *)

Workloads == {"ids", "validation", "fields", "media", "uploads"}

S_A == Str(<<"A">>)
S_B == Str(<<"B">>)
S_C == Str(<<"C">>)
S_empty == Str(<<>>)

\* body.id of POST /posts
PostIdInputs(w) ==
    CASE w = "ids" ->
            {Undefined, S_empty, Str(<<"a", "b", "c">>), Str(<<"4", "2">>)}
      [] w = "validation" ->
            {Str(<<"a", "b", "c">>), Str(<<"4", "2">>), Str(<<"4", "2", "p", "x">>),
             Str(<<"-", "1">>), Str(<<"4", ".", "2">>), Str(<<"1", "e", "3">>),
             Str(<<"0", "x", "1", "F">>), Str(<<" ">>), Str(<<"-">>)}
      [] w = "fields" -> {Str(<<"5">>), Str(<<"6">>)}
      [] w = "media" -> {Str(<<"a", "b", "c">>), Str(<<"5">>)}
      [] w = "uploads" -> {Str(<<"a", "b", "c">>), Str(<<" ">>), Str(<<"5">>)}

\* body.title, body.description, body.actress of POST /posts
PostTextInputs(w) ==
    CASE w = "ids" ->
            {[title |-> t, description |-> Undefined, actress |-> Undefined] : t \in {S_A, S_B}}
      [] w = "validation" ->
            {[title |-> S_A, description |-> Undefined, actress |-> Undefined]}
      [] w = "fields" ->
            {[title |-> t, description |-> d, actress |-> a] :
                t \in {Undefined, S_A}, d \in {S_B}, a \in {Undefined}}
      [] w \in {"media", "uploads"} ->
            {[title |-> S_A, description |-> Undefined, actress |-> Undefined]}

\* The uploaded parts: the declared content type and the original file name.
PngPart ==
    [t |-> "part",
     mimetype |-> <<"i", "m", "a", "g", "e", "/", "p", "n", "g">>,
     originalname |-> <<"a", ".", "p", "n", "g">>]

Mp4Part ==
    [t |-> "part",
     mimetype |-> <<"v", "i", "d", "e", "o", "/", "m", "p", "4">>,
     originalname |-> <<"b", ".", "m", "p", "4">>]

PartInputs(w) ==
    CASE w = "media" -> {Undefined, PngPart, Mp4Part}
      [] w = "uploads" -> {Undefined, PngPart}
      [] OTHER -> {Undefined}

\* Date.now() when multer names a file
NowInputs == {1}

\* body of PUT /posts/:id
PutBodyInputs(w) ==
    CASE w \in {"ids", "validation", "uploads"} ->
            {[title |-> t, description |-> Undefined, actress |-> Undefined,
              id |-> Undefined, image |-> Undefined, video |-> Undefined] :
                t \in {Undefined, S_C}}
      [] w = "fields" ->
            {[title |-> t, description |-> d, actress |-> a,
              id |-> x, image |-> x, video |-> x] :
                t \in {Undefined, S_empty, S_C},
                d \in {Undefined, S_empty, S_C},
                a \in {Undefined, S_empty, S_C},
                x \in {Undefined}}
      [] w = "media" ->
            {[title |-> S_A, description |-> Undefined, actress |-> Undefined,
              id |-> x, image |-> x, video |-> x] : x \in {Str(<<"9">>)}}

\* req.params.id: the ids POST /posts accepts, the ids in the collection,
\* the tokens handed out so far, and one id never stored.
ParamIdInputs(w) ==
    {x.v : x \in {y \in PostIdInputs(w) : Truthy(y) /\ ~isNaN(y)}}
        \cup {posts[i].id.v : i \in 1..Len(posts)}
        \cup {uuidv4(n) : n \in 1..uuids}
        \cup {<<"7">>}

\* How many records the exploration lets the collection hold.
Capacity(w) == IF w \in {"fields", "validation", "uploads"} THEN MaxFieldPosts ELSE MaxPosts

-----------------------------------------------------------------------------
(* State *)

NoRequest == [route |-> "none"]
NoResponse == [status |-> 0]
FreeSlot == [state |-> "free"]

\* The process after startup: no posts, nothing uploaded.
Start ==
    /\ posts = <<>>
    /\ disk = {}
    /\ uuids = 0
    /\ req = NoRequest
    /\ res = NoResponse
    /\ slots = [s \in 1..MaxInflight |-> FreeSlot]

Init == Start /\ workload \in Workloads
InitIds == Start /\ workload = "ids"
InitValidation == Start /\ workload = "validation"
InitFields == Start /\ workload = "fields"
InitMedia == Start /\ workload = "media"
InitUploads == Start /\ workload = "uploads"

\* POST /posts: multer's upload.fields writes the parts, then the handler runs
CreatePost ==
    \E id \in PostIdInputs(workload), text \in PostTextInputs(workload),
       image \in PartInputs(workload), video \in PartInputs(workload),
       now \in NowInputs :
        LET nImage == IF image # Undefined THEN 1 ELSE 0
            nVideo == IF video # Undefined THEN 1 ELSE 0
            files == [image |-> IF image # Undefined
                                THEN Array(<<StoreFile(image, uuidv4(uuids + 1), now)>>)
                                ELSE Undefined,
                      video |-> IF video # Undefined
                                THEN Array(<<StoreFile(video, uuidv4(uuids + nImage + 1), now)>>)
                                ELSE Undefined]
            written == {f.items[1].path : f \in {files.image, files.video} \ {Undefined}}
            body == [id |-> id, title |-> text.title,
                     description |-> text.description, actress |-> text.actress]
            out == HandleCreate(posts, body, files, uuidv4(uuids + nImage + nVideo + 1))
        IN  /\ uuids + nImage + nVideo + out.drawn <= MaxUuid
            /\ Len(out.posts) <= Capacity(workload)
            /\ req' = [route |-> "POST /posts", body |-> body,
                       parts |-> [image |-> image, video |-> video], files |-> files]
            /\ disk' = disk \cup written
            /\ uuids' = uuids + nImage + nVideo + out.drawn
            /\ posts' = out.posts
            /\ res' = out.res
            /\ UNCHANGED <<slots, workload>>

\* GET /posts
ListPosts ==
    /\ req' = [route |-> "GET /posts"]
    /\ res' = HandleList(posts)
    /\ UNCHANGED <<posts, disk, uuids, slots, workload>>

\* GET /posts/:id
GetPost ==
    \E id \in ParamIdInputs(workload) :
        /\ req' = [route |-> "GET /posts/:id", id |-> id]
        /\ res' = HandleGet(posts, id)
        /\ UNCHANGED <<posts, disk, uuids, slots, workload>>

\* PUT /posts/:id
UpdatePost ==
    \E id \in ParamIdInputs(workload), body \in PutBodyInputs(workload) :
        LET out == HandleUpdate(posts, id, body)
        IN  /\ req' = [route |-> "PUT /posts/:id", id |-> id, body |-> body]
            /\ posts' = out.posts
            /\ res' = out.res
            /\ UNCHANGED <<disk, uuids, slots, workload>>

\* DELETE /posts/:id
DeletePost ==
    \E id \in ParamIdInputs(workload) :
        LET out == HandleDelete(posts, id)
        IN  /\ req' = [route |-> "DELETE /posts/:id", id |-> id]
            /\ posts' = out.posts
            /\ res' = out.res
            /\ UNCHANGED <<disk, uuids, slots, workload>>

Next ==
    \/ CreatePost
    \/ ListPosts
    \/ GetPost
    \/ UpdatePost
    \/ DeletePost

Spec == Init /\ [][Next]_vars
SpecIds == InitIds /\ [][Next]_vars
SpecValidation == InitValidation /\ [][Next]_vars
SpecFields == InitFields /\ [][Next]_vars
SpecMedia == InitMedia /\ [][Next]_vars
SpecUploads == InitUploads /\ [][Next]_vars

-----------------------------------------------------------------------------
(* Requests in flight.  Express reads a request's body asynchronously, so  *)
(* several requests can be received before the handler of any of them has  *)
(* run, and their handlers run in any order.  A handler is a synchronous   *)
(* function: the event loop starts the next callback only when the running *)
(* one has returned.  Here PUT and DELETE take two steps, the lookup and    *)
(* the mutation, so that what can happen between the two is explored.      *)

\* The requests received concurrently: all address the record with id 5.
S_5 == <<"5">>

ConcurrentRequests ==
    { [route |-> "POST /posts",
       body |-> [id |-> Str(S_5), title |-> S_A,
                 description |-> Undefined, actress |-> Undefined]],
      [route |-> "GET /posts/:id", id |-> S_5],
      [route |-> "PUT /posts/:id", id |-> S_5,
       body |-> [title |-> S_C, description |-> Undefined, actress |-> Undefined,
                 id |-> Undefined, image |-> Undefined, video |-> Undefined]],
      [route |-> "DELETE /posts/:id", id |-> S_5] }

InitConcurrent == Start /\ workload = "concurrent"

\* A handler that awaits between its lookup and its mutation
AwaitsAfterLookup_Async(route) == route \in {"PUT /posts/:id", "DELETE /posts/:id"}

\* Whether the handler of the route gives control back to the event loop
\* between its lookup and its mutation: none does, the handlers hold no
\* await and no callback (src/server.js:260-272, 293-302).
AwaitsAfterLookup(route) == FALSE

\* The event loop can start a callback for slot s: no other handler is on
\* the stack, that is, past its lookup without having given control back.
CanRun(s) ==
    \A t \in (1..MaxInflight) \ {s} :
        slots[t].state = "found" => AwaitsAfterLookup(slots[t].req.route)

\* A request arrives and its body is being read.
Receive ==
    \E s \in 1..MaxInflight, r \in ConcurrentRequests :
        /\ slots[s].state = "free"
        /\ slots' = [slots EXCEPT ![s] = [state |-> "parsed", req |-> r]]
        /\ UNCHANGED <<posts, disk, uuids, req, res, workload>>

\* The handler of POST /posts, from its first statement to its last
RunCreate ==
    \E s \in 1..MaxInflight :
        /\ slots[s].state = "parsed"
        /\ slots[s].req.route = "POST /posts"
        /\ CanRun(s)
        /\ LET r == slots[s].req
               out == HandleCreate(posts, r.body,
                                   [image |-> Undefined, video |-> Undefined],
                                   uuidv4(uuids + 1))
           IN  /\ Len(out.posts) <= MaxPosts
               /\ uuids + out.drawn <= MaxUuid
               /\ posts' = out.posts
               /\ uuids' = uuids + out.drawn
               /\ req' = r
               /\ res' = out.res
        /\ slots' = [slots EXCEPT ![s] = FreeSlot]
        /\ UNCHANGED <<disk, workload>>

\* The handler of GET /posts/:id
RunGet ==
    \E s \in 1..MaxInflight :
        /\ slots[s].state = "parsed"
        /\ slots[s].req.route = "GET /posts/:id"
        /\ CanRun(s)
        /\ req' = slots[s].req
        /\ res' = HandleGet(posts, slots[s].req.id)
        /\ slots' = [slots EXCEPT ![s] = FreeSlot]
        /\ UNCHANGED <<posts, disk, uuids, workload>>

\* PUT /posts/:id up to `const post = posts.find(...)`; DELETE /posts/:id up
\* to `const postIndex = posts.findIndex(...)`.  The handler answers 404 at
\* once when nothing is found.
Lookup ==
    \E s \in 1..MaxInflight :
        /\ slots[s].state = "parsed"
        /\ slots[s].req.route \in {"PUT /posts/:id", "DELETE /posts/:id"}
        /\ CanRun(s)
        /\ LET r == slots[s].req
               postIndex == findIndex(posts, r.id)
           IN  IF postIndex # -1
               THEN /\ slots' = [slots EXCEPT ![s] =
                                    [state |-> "found", req |-> r,
                                     postIndex |-> postIndex, post |-> find(posts, r.id)]]
                    /\ UNCHANGED <<req, res>>
               ELSE /\ slots' = [slots EXCEPT ![s] = FreeSlot]
                    /\ req' = r
                    /\ res' = NotFound
        /\ UNCHANGED <<posts, disk, uuids, workload>>

\* PUT /posts/:id from `post.title = ...` on: the three assignments to the
\* object found, which stands at postIndex unless the array changed, and
\* the response.
Mutate ==
    \E s \in 1..MaxInflight :
        /\ slots[s].state = "found"
        /\ slots[s].req.route = "PUT /posts/:id"
        /\ LET f == slots[s]
               k == f.postIndex + 1
           IN  /\ posts' = IF k <= Len(posts) /\ posts[k] = f.post
                           THEN [posts EXCEPT ![k] = updated(f.post, f.req.body)]
                           ELSE posts
               /\ req' = f.req
               /\ res' = Json(200, [message |-> "Post updated successfully",
                                    post |-> updated(f.post, f.req.body)])
        /\ slots' = [slots EXCEPT ![s] = FreeSlot]
        /\ UNCHANGED <<disk, uuids, workload>>

\* DELETE /posts/:id from `posts.splice(postIndex, 1)` on
Splice ==
    \E s \in 1..MaxInflight :
        /\ slots[s].state = "found"
        /\ slots[s].req.route = "DELETE /posts/:id"
        /\ posts' = splice(posts, slots[s].postIndex)
        /\ req' = slots[s].req
        /\ res' = Json(200, [message |-> "Post deleted successfully"])
        /\ slots' = [slots EXCEPT ![s] = FreeSlot]
        /\ UNCHANGED <<disk, uuids, workload>>

NextConcurrent ==
    \/ Receive
    \/ RunCreate
    \/ RunGet
    \/ Lookup
    \/ Mutate
    \/ Splice

SpecConcurrent == InitConcurrent /\ [][NextConcurrent]_vars

-----------------------------------------------------------------------------
(* Vocabulary of the properties *)

IsCreate(r) == r.route = "POST /posts"
IsList(r) == r.route = "GET /posts"
IsGet(r) == r.route = "GET /posts/:id"
IsUpdate(r) == r.route = "PUT /posts/:id"
IsDelete(r) == r.route = "DELETE /posts/:id"

\* A numeric string as a reader of the API understands it: an optional
\* sign, decimal digits, at most one decimal point, at least one digit.
NumericString(v) ==
    LET u == IF v # <<>> /\ v[1] \in {"+", "-"} THEN Tail(v) ELSE v
    IN  /\ \E i \in 1..Len(u) : u[i] \in Digit
        /\ \A i \in 1..Len(u) : u[i] \in Digit \cup {"."}
        /\ Cardinality({i \in 1..Len(u) : u[i] = "."}) <= 1

\* The indices of the records of ps whose id is the string id.
Matches(ps, id) == {i \in 1..Len(ps) : ps[i].id = Str(id)}

S_42 == <<"4", "2">>

-----------------------------------------------------------------------------
(* C1: POST /posts with a supplied id that is not a valid numeric string   *)
(* responds 400 "ID must be a valid number" and leaves the collection      *)
(* exactly as it was.  The code decides with isNaN, which converts a       *)
(* string of white space to 0: id " " is accepted and stored.              *)
C1_RejectsNonNumericId ==
    [][ (IsCreate(req') /\ Truthy(req'.body.id) /\ ~NumericString(req'.body.id.v))
            => /\ res' = Json(400, [message |-> "ID must be a valid number"])
               /\ posts' = posts ]_vars

-----------------------------------------------------------------------------
(* C2 as stated: POST /posts with a numeric-string id k responds 201, and  *)
(* the GET /posts/k that follows it responds 200 with the record that POST *)
(* created.                                                                *)
C2_GetReturnsCreated ==
    [][ /\ (IsCreate(req') /\ Truthy(req'.body.id) /\ NumericString(req'.body.id.v))
              => res'.status = 201
        /\ ( /\ IsCreate(req) /\ Truthy(req.body.id) /\ NumericString(req.body.id.v)
             /\ res.status = 201
             /\ IsGet(req') /\ req'.id = req.body.id.v )
              => res' = Json(200, res.body.post) ]_vars

(* C2 amended: POST /posts with a numeric-string id k responds 201 with a  *)
(* record whose id is k; the GET /posts/k that follows responds 200 with   *)
(* that record when no record with id k was in the collection before, and  *)
(* with the earliest-inserted record with id k when one was.               *)
C2_GetReturnsFirstWithId ==
    [][ (IsCreate(req') /\ Truthy(req'.body.id) /\ NumericString(req'.body.id.v))
            => LET k == req'.body.id.v
                   got == HandleGet(posts', k)
               IN  /\ res'.status = 201
                   /\ res'.body.post.id = Str(k)
                   /\ res'.body.post.title = req'.body.title
                   /\ res'.body.post.description = req'.body.description
                   /\ res'.body.post.actress = req'.body.actress
                   /\ got.status = 200
                   /\ IF Matches(posts, k) = {}
                      THEN got.body = res'.body.post
                      ELSE \E i \in Matches(posts, k) :
                              /\ got.body = posts[i]
                              /\ \A j \in Matches(posts, k) : i <= j ]_vars

C2_Witness ==
    /\ IsCreate(req)
    /\ req.body.id = Str(S_42)
    /\ res.status = 201
    /\ Len(posts) = 2
    /\ HandleGet(posts, S_42) = Json(200, res.body.post)

-----------------------------------------------------------------------------
(* C3 as stated: after DELETE /posts/k responds 200, the GET /posts/k that *)
(* follows responds 404, and the DELETE /posts/k that follows responds 404 *)
(* and leaves the collection unchanged.                                    *)
C3_DeletedIsGone ==
    [][ (IsDelete(req) /\ res.status = 200)
            => /\ (IsGet(req') /\ req'.id = req.id) => res'.status = 404
               /\ (IsDelete(req') /\ req'.id = req.id)
                     => (res'.status = 404 /\ posts' = posts) ]_vars

(* C3 amended: after DELETE /posts/k responds 200 for an id k that exactly *)
(* one record carried, GET /posts/k responds 404 and a second              *)
(* DELETE /posts/k responds 404 without changing the collection; when      *)
(* several records carried k, the delete removed one of them and GET       *)
(* /posts/k still responds 200.                                            *)
C3_DeletedIsGoneWhenUnique ==
    [][ (IsDelete(req') /\ res'.status = 200)
            => LET k == req'.id
               IN  /\ Cardinality(Matches(posts', k)) = Cardinality(Matches(posts, k)) - 1
                   /\ IF Cardinality(Matches(posts, k)) = 1
                      THEN /\ HandleGet(posts', k) = NotFound
                           /\ HandleDelete(posts', k) = [posts |-> posts', res |-> NotFound]
                      ELSE HandleGet(posts', k).status = 200 ]_vars

C3_Witness ==
    /\ IsDelete(req)
    /\ res.status = 200
    /\ Len(posts) = 1
    /\ HandleGet(posts, req.id) = NotFound
    /\ HandleDelete(posts, req.id).res = NotFound

-----------------------------------------------------------------------------
\* The first index of ps whose record has the id (there is one).
First(ps, id) == CHOOSE i \in Matches(ps, id) : \A j \in Matches(ps, id) : i <= j

\* What the update is to store: the supplied value when it is a non-empty
\* string, the stored value when it is absent or the empty string.
Coalesced(supplied, stored) ==
    IF supplied = Undefined \/ supplied = S_empty THEN stored ELSE supplied

(* C4: PUT /posts/{id} on an existing record responds 200; title,          *)
(* description and actress each become the supplied value when it is       *)
(* non-empty and stay as stored when it is absent or empty; the response   *)
(* carries the record with those values.                                   *)
C4_CoalesceOnTruthy ==
    [][ (IsUpdate(req') /\ Matches(posts, req'.id) # {})
            => LET k == First(posts, req'.id)
                   b == req'.body
               IN  /\ res'.status = 200
                   /\ Len(posts') = Len(posts)
                   /\ posts'[k].title = Coalesced(b.title, posts[k].title)
                   /\ posts'[k].description = Coalesced(b.description, posts[k].description)
                   /\ posts'[k].actress = Coalesced(b.actress, posts[k].actress)
                   /\ res'.body.post = posts'[k] ]_vars

C4_Witness ==
    /\ IsUpdate(req)
    /\ res.status = 200
    /\ req.body.title = S_empty
    /\ req.body.description = S_C
    /\ req.body.actress = Undefined
    /\ res.body.post.title = S_A
    /\ res.body.post.description = S_C
    /\ res.body.post.actress = S_C
    /\ posts[First(posts, req.id)] = res.body.post

-----------------------------------------------------------------------------
\* ps without its i-th element, the others in their order.
Without(ps, i) == [j \in 1..(Len(ps) - 1) |-> IF j < i THEN ps[j] ELSE ps[j + 1]]

-----------------------------------------------------------------------------
(* C6: the reference stored in post.image or post.video names a file that  *)
(* exists on disk, for any declared content type of the part.  The code    *)
(* picks the directory it writes to from the content type and the          *)
(* directory it references from the field name, so an image part declared  *)
(* video/mp4 is written to uploads/videos and referenced in uploads/images.*)
C6_ReferencedFileExists ==
    \A i \in 1..Len(posts) :
        \A ref \in {posts[i].image, posts[i].video} \ {Null} :
            /\ StaticFile(ref.v) # Undefined
            /\ StaticFile(ref.v).v \in disk

-----------------------------------------------------------------------------
(* C7: GET, PUT and DELETE /posts/{id} addressed to an id that no record   *)
(* has respond 404 and leave the collection unchanged.                     *)
C7_UnknownIdNoMutation ==
    [][ ((IsGet(req') \/ IsUpdate(req') \/ IsDelete(req')) /\ Matches(posts, req'.id) = {})
            => (res' = NotFound /\ posts' = posts) ]_vars

C7_Witness ==
    /\ IsDelete(req)
    /\ res = NotFound
    /\ Len(posts) = 2
    /\ Matches(posts, req.id) = {}

-----------------------------------------------------------------------------
\* The tokens uuidv4() has handed out.
Issued(n) == {uuidv4(k) : k \in 1..n}

(* C8: a create without an id (omitted or empty) stores a generated id     *)
(* that is non-empty, differs from every id in the collection and, the     *)
(* generator never repeating, from every token handed out before, also     *)
(* those of records deleted since.                                         *)
C8_GeneratedIdFresh ==
    [][ (IsCreate(req') /\ ~Truthy(req'.body.id))
            => LET g == res'.body.post.id
               IN  /\ res'.status = 201
                   /\ g.t = "string"
                   /\ g.v # <<>>
                   /\ g.v \notin Issued(uuids)
                   /\ Matches(posts, g.v) = {}
                   /\ posts'[Len(posts')].id = g ]_vars

C8_Witness ==
    /\ IsCreate(req)
    /\ req.body.id = S_empty
    /\ res.status = 201
    /\ uuids = 3
    /\ Len(posts) = 2
    /\ posts[1].id = Str(uuidv4(1))
    /\ posts[2].id = Str(uuidv4(3))

-----------------------------------------------------------------------------
(* C9: every record of the collection has a non-empty string as its id.    *)
C9_IdNonEmpty ==
    \A i \in 1..Len(posts) :
        /\ posts[i].id.t = "string"
        /\ posts[i].id.v # <<>>

C9_Witness ==
    /\ IsCreate(req)
    /\ req.body.id = Undefined
    /\ res.status = 201
    /\ Len(posts) = 2
    /\ posts[1].id.v = S_42
    /\ posts[2].id.v # <<>>

-----------------------------------------------------------------------------
-----------------------------------------------------------------------------
\* The slots whose handler is between its lookup and its mutation
BetweenLookupAndMutation == {s \in 1..MaxInflight : slots[s].state = "found"}

\* The slots whose request addresses the same id as the request of slot s
\* and whose handler has not started
WaitingOnSameId(s) ==
    {t \in (1..MaxInflight) \ {s} :
        /\ slots[t].state = "parsed"
        /\ slots[t].req.route \in {"GET /posts/:id", "PUT /posts/:id", "DELETE /posts/:id"}
        /\ slots[t].req.id = slots[s].req.id}

-----------------------------------------------------------------------------
\* The file objects multer left in the request r
Uploaded(r) == {f.items[1] : f \in {r.files.image, r.files.video} \ {Undefined}}

\* The part of a path or of a reference after its last slash
Basename(v) ==
    LET slashes == {i \in 1..Len(v) : v[i] = "/"}
        last == IF slashes = {} THEN 0
                ELSE CHOOSE i \in slashes : \A j \in slashes : j <= i
    IN  SubSeq(v, last + 1, Len(v))

\* The fields of the records of ps that refer to the file of the given name
Referrers(ps, name) ==
    {<<i, field>> \in (1..Len(ps)) \X {"image", "video"} :
        /\ ps[i][field] # Null
        /\ Basename(ps[i][field].v) = name}

(* C12: the files of a POST /posts are on disk before the id is looked at; *)
(* a request with a file part and a malformed id is answered 400, adds no  *)
(* record, and leaves its file on disk, referenced by no record.  A        *)
(* malformed id that isNaN converts to a number, such as " ", is accepted: *)
(* the response is 201 and the new record refers to the file.              *)
C12_MalformedIdOrphansUpload ==
    [][ ( /\ IsCreate(req')
          /\ Uploaded(req') # {}
          /\ Truthy(req'.body.id)
          /\ ~NumericString(req'.body.id.v) )
            => /\ res'.status = 400
               /\ posts' = posts
               /\ \A f \in Uploaded(req') :
                     /\ f.path \in disk'
                     /\ Referrers(posts', f.filename) = {} ]_vars

(* C12, for the ids the validation rejects: every file of the request is   *)
(* on disk although the response is 400 and no record was added, and no    *)
(* record refers to it.                                                    *)
C12_RejectedIdOrphansUpload ==
    [][ ( /\ IsCreate(req')
          /\ Uploaded(req') # {}
          /\ IdRejected(req'.body.id) )
            => /\ res' = Json(400, [message |-> "ID must be a valid number"])
               /\ posts' = posts
               /\ \A f \in Uploaded(req') :
                     /\ f.path \in disk'
                     /\ f.path \notin disk
                     /\ Referrers(posts', f.filename) = {} ]_vars

C12_RejectedWitness ==
    /\ IsCreate(req)
    /\ Uploaded(req) # {}
    /\ IdRejected(req.body.id)
    /\ res.status = 400
    /\ \E f \in Uploaded(req) : f.path \in disk

-----------------------------------------------------------------------------
(* C13: GET, PUT and DELETE /posts/{id} act on the records whose id is     *)
(* exactly the string of the path, and among them on the earliest          *)
(* inserted only: GET answers with it, PUT changes it and no other record, *)
(* DELETE removes it and no other record, so the length drops by one and   *)
(* the later records of the same id stay as they were.                     *)
C13_FirstMatchOnly ==
    [][ ((IsGet(req') \/ IsUpdate(req') \/ IsDelete(req')) /\ Matches(posts, req'.id) # {}) =>
          LET k == First(posts, req'.id)
          IN  /\ IsGet(req') =>
                    /\ res' = Json(200, posts[k])
                    /\ posts' = posts
              /\ IsUpdate(req') =>
                    /\ res'.status = 200
                    /\ Len(posts') = Len(posts)
                    /\ res'.body.post = posts'[k]
                    /\ \A j \in (1..Len(posts)) \ {k} : posts'[j] = posts[j]
              /\ IsDelete(req') =>
                    /\ res'.status = 200
                    /\ Len(posts') = Len(posts) - 1
                    /\ posts' = Without(posts, k) ]_vars

\* C13 witness: a PUT has changed the first of two records of one id and
\* the second still carries the title it was created with.
C13_Witness ==
    /\ IsUpdate(req)
    /\ res.status = 200
    /\ Cardinality(Matches(posts, req.id)) >= 2
    /\ res.body.post = posts[First(posts, req.id)]
    /\ res.body.post.title = S_C
    /\ \E j \in Matches(posts, req.id) : posts[j].title # S_C

-----------------------------------------------------------------------------
\* The record a create is to store for the request r: the supplied id, or
\* for an omitted id one of the n tokens handed out, the text fields as sent
\* and a reference for each part sent.
IsRecordOf(post, r, n) ==
    /\ DOMAIN post = {"id", "title", "description", "actress", "image", "video"}
    /\ IF r.body.id = Undefined
       THEN post.id \in {Str(t) : t \in Issued(n)}
       ELSE post.id = r.body.id
    /\ post.title = r.body.title
    /\ post.description = r.body.description
    /\ post.actress = r.body.actress
    /\ (post.image = Null) <=> (r.parts.image = Undefined)
    /\ (post.video = Null) <=> (r.parts.video = Undefined)

(* C14: POST /posts with no id or with a numeric-string id responds 201    *)
(* with the whole new record and puts that one record at the end of the    *)
(* collection; the records already there stay as they were and where they  *)
(* were, also when one of them has the same id.                            *)
C14_CreateAlwaysAppends ==
    [][ ( /\ IsCreate(req')
          /\ \/ req'.body.id = Undefined
             \/ Truthy(req'.body.id) /\ NumericString(req'.body.id.v) )
            => /\ res'.status = 201
               /\ res'.body.message = "Post created successfully"
               /\ Len(posts') = Len(posts) + 1
               /\ SubSeq(posts', 1, Len(posts)) = posts
               /\ posts'[Len(posts')] = res'.body.post
               /\ IsRecordOf(res'.body.post, req', uuids') ]_vars

\* C14 witness: a create was answered 201 for an id that an earlier record
\* has too; both records are in the collection, the new one last.
C14_Witness ==
    /\ IsCreate(req)
    /\ res.status = 201
    /\ Truthy(req.body.id)
    /\ NumericString(req.body.id.v)
    /\ posts[Len(posts)] = res.body.post
    /\ \E i \in 1..(Len(posts) - 1) : posts[i].id = req.body.id

-----------------------------------------------------------------------------
\* The names of the files the record post refers to
NamesIn(post) == {Basename(ref.v) : ref \in {post.image, post.video} \ {Null}}

(* C15: in every reachable state every file written is referred to by at   *)
(* most one field of one record, and every reference names a file that was *)
(* written: no two records and no two fields of a record carry the same    *)
(* generated file name.  The files of a rejected create are on disk and no *)
(* record refers to them, and deleting any record leaves no record         *)
(* referring to its files, which stay on disk.                             *)
C15_FileReferencedAtMostOnce ==
    LET written == {Basename(p) : p \in disk}
    IN  /\ Cardinality(written) = Cardinality(disk)
        /\ \A name \in written : Cardinality(Referrers(posts, name)) <= 1
        /\ \A i \in 1..Len(posts) : NamesIn(posts[i]) \subseteq written
        /\ (IsCreate(req) /\ res.status = 400) =>
              \A f \in Uploaded(req) :
                  /\ f.path \in disk
                  /\ Referrers(posts, f.filename) = {}
        /\ \A i \in 1..Len(posts) :
              LET id == posts[i].id.v
                  out == HandleDelete(posts, id)
              IN  /\ out.res.status = 200
                  /\ \A name \in NamesIn(posts[First(posts, id)]) :
                        Referrers(out.posts, name) = {}

\* C15 witness: a record with an image was deleted, its file is on disk
\* with no record referring to it, and the remaining record refers to two
\* other files, one in each field.
C15_Witness ==
    /\ IsDelete(req)
    /\ res.status = 200
    /\ \E p \in disk : Referrers(posts, Basename(p)) = {}
    /\ \E i \in 1..Len(posts) : Cardinality(NamesIn(posts[i])) = 2
=============================================================================
